---- MODULE Spec2Model ----
(***************************************************************************)
(* Model of kinobot's media layer (src/kinobot/media.py): the fuzzy        *)
(* catalog resolvers (Movie / TVShow / Episode / Song .from_query), the    *)
(* blacklist admin command that hides a resolved item, subtitle loading    *)
(* (LocalMedia.subtitle / get_subtitles) and frame extraction              *)
(* (LocalMedia.get_frame).                                                 *)
(*                                                                         *)
(* fuzz.ratio is a third-party function of the query and a row's           *)
(* comparison string; a query is therefore represented by the vector of    *)
(* ratios it has against the rows the resolver selects, in select order.   *)
(***************************************************************************)
EXTENDS Integers, Sequences, FiniteSets, TLC

\* ---------------------------------------------------------------- bounds
MaxCatalog == 3
MaxShows == 2
MaxEpisodes == 2
MaxCues == 2
MaxStart == 2
MaxSeconds == 2
MaxOpens == 2
MaxRequests == 2
MaxSpecs == 2
MaxQuota == 3
MaxRelease == 2
MaxItems == 2

\* posts the page returns to one collection (page_limit)
MaxPosts == 3

\* calls of requests() and ratings() on one FacebookRegister
MaxCalls == 4

\* if len(m["content"]) > 6
SpecLimit == 6

\* ------------------------------------------------------ program constants
MovieThreshold == 59
ShowThreshold == 77
SongThreshold == 59
NearExact == 98

\* _MIN_BYTES = 1e9, in units of 10^9 bytes
MIN_BYTES == 1

\* the loop of _post_to_facebook goes on while count < 4
AttemptLimit == 4

\* Ratios a query may have against a row: the values around every threshold
\* the code compares with, 0 (nothing in common) and 100 (equal strings).
MovieRatios == {0, MovieThreshold - 1, MovieThreshold, NearExact, NearExact + 1, 100}
ShowRatios == {0, ShowThreshold - 1, ShowThreshold, 100}
SongRatios == {0, SongThreshold - 1, SongThreshold, NearExact + 1, 100}

Seasons == {1, 2}
EpisodeNumbers == {1, 2}

VARIABLES
    movies,     \* table movies: sequence of rows [id, hidden]
    songs,      \* table songs: sequence of rows [id, hidden]
    tv_shows,   \* table tv_shows: sequence of rows [id]
    episodes,   \* table episodes: rows [id, tv_show_id, season, episode, hidden]
    res,        \* outcome of the last from_query call
    files,           \* per LocalMedia object: its media file and subtitle file
    subtitle_cached, \* per LocalMedia object: cached_property subtitle computed
    subres,          \* per LocalMedia object: outcome of its last get_subtitles
    extsubres,       \* outcome of the last get_subtitles of an ExternalMedia item
    video,      \* the video file behind one LocalMedia object
    capture,    \* self.capture: "None" or "loaded"
    fps,        \* self.fps, in thousandths of a frame per second
    dar,        \* self._dar: a ratio [num, den], or NoDar for None
    opens,      \* how many times a cv2.VideoCapture was opened for the object
    frameres,   \* outcome of the last get_frame
    roles,      \* per Discord user: the names of the roles the user holds
    requests,   \* per request id: its author and its verified flag
    adminres,   \* outcome of the last admin command
    slctd,      \* handle_requests: the selected requests, each with its used flag
    inc,        \* handle_requests: position in slctd (from 1)
    pc,         \* handle_requests: "idle", "loop", "done" or "raised"
    posts,      \* the posts published so far, in order
    log,        \* per position of slctd: what was done for that request
    comments_json,  \* the used flags as write_js last saved them
    extframeres, \* outcome of the last get_frame of an ExternalMedia item
    quota,      \* the quota of one curator, in units of 10^9 bytes
    registered, \* total size of the additions registered for that curator
    runs,       \* per addm / addtv command run of that curator: its progress
    db_items,   \* table movies / episodes as the register sees it: per id a row or none
    inventory,  \* the Radarr / Sonarr inventory: per id its listing or none
    blacklisted, \* ids the blacklist command has hidden
    runres,     \* outcome of the last registration run
    reqstate,   \* per request id of the Discord queue: "queued", "verified" or "removed"
    reactres,   \* outcome of the last on_reaction_add
    identifier, \* the page a call of _post_to_facebook posts to
    poster_pc,  \* position of the call: idle, loop, done or raised
    count,      \* loop turns of the call so far
    attempts,   \* outcome of each turn of the call
    fb_posts,  \* posts the call has published
    comments,   \* FacebookRegister._comments
    collected,  \* FacebookRegister.__collected
    calls,      \* calls of requests() and ratings() made on the instance
    callres     \* what the last call did

resolverVars == <<movies, songs, tv_shows, episodes, res>>
subtitleVars == <<files, subtitle_cached, subres, extsubres>>
frameVars == <<video, capture, fps, dar, opens, frameres>>
mediaVars == <<resolverVars, subtitleVars, frameVars>>
adminVars == <<roles, requests, adminres>>
pipelineVars == <<slctd, inc, pc, posts, log, comments_json>>
externalVars == <<extframeres>>
curatorVars == <<quota, registered, runs>>
registerVars == <<db_items, inventory, blacklisted, runres>>
reactionVars == <<reqstate, reactres>>
posterVars == <<identifier, poster_pc, count, attempts, fb_posts>>
collectVars == <<comments, collected, calls, callres>>
botVars == <<adminVars, pipelineVars, externalVars, curatorVars, registerVars, reactionVars, posterVars, collectVars>>
notAdminVars == <<mediaVars, pipelineVars, externalVars, curatorVars, registerVars, reactionVars, posterVars, collectVars>>
notPipelineVars == <<mediaVars, adminVars, externalVars, curatorVars, registerVars, reactionVars, posterVars, collectVars>>
notExternalVars == <<mediaVars, adminVars, pipelineVars, curatorVars, registerVars, reactionVars, posterVars, collectVars>>
notCuratorVars == <<mediaVars, adminVars, pipelineVars, externalVars, registerVars, reactionVars, posterVars, collectVars>>
notRegisterVars == <<mediaVars, adminVars, pipelineVars, externalVars, curatorVars, reactionVars, posterVars, collectVars>>
notReactionVars == <<mediaVars, adminVars, pipelineVars, externalVars, curatorVars, registerVars, posterVars, collectVars>>
notPosterVars == <<mediaVars, adminVars, pipelineVars, externalVars, curatorVars, registerVars, reactionVars, collectVars>>
notCollectVars == <<mediaVars, adminVars, pipelineVars, externalVars, curatorVars, registerVars, reactionVars, posterVars>>
vars == <<mediaVars, botVars>>

\* ------------------------------------------------------------- the resolvers
NoRow == [id |-> 0, hidden |-> FALSE]

\* No call made yet, or the last one dealt with.
NoResult ==
    [op |-> "none", item_list |-> <<>>, ratios |-> <<>>, threshold |-> 0,
     initial |-> 0, scanned |-> 0, lookup |-> FALSE, season |-> 0, episode |-> 0,
     error |-> "none", resolved |-> FALSE, resolved_id |-> 0,
     returned |-> FALSE, item |-> NoRow, candidate |-> 0]

NotHidden(row) == ~row.hidden

\* "select * from movies where hidden=0"
MovieItemList == SelectSeq(movies, NotHidden)

\* "select * from songs"
SongItemList == songs

\* "select * from tv_shows"
ShowItemList == tv_shows

\* Variant: a tie replaces the best so far (>= for >).
ImprovesOrTies(fuzzy, initial) == fuzzy >= initial

\* if fuzzy > initial
Improves(fuzzy, initial) == fuzzy > initial

\* Variant: the scan breaks from ratio 98 on (>= for >).
ShortCircuitsFrom98(fuzzy) == fuzzy >= NearExact

\* if fuzzy > 98: break
ShortCircuits(fuzzy) == fuzzy > NearExact

\* if initial < 59 (77 for TV shows): raise
BelowThreshold(initial, threshold) == initial < threshold

\* item = final_list[-1]
Candidate(final_list) == final_list[Len(final_list)]

RECURSIVE ScanAppendAll(_, _, _, _, _, _)
\* Variant: every scanned row is appended to final_list, improvement or not.
ScanAppendAll(item_list, ratios, i, initial, final_list, brk) ==
    IF i > Len(item_list)
    THEN [initial |-> initial, final_list |-> final_list, scanned |-> Len(item_list)]
    ELSE IF Improves(ratios[i], initial)
         THEN IF brk /\ ShortCircuits(ratios[i])
              THEN [initial |-> ratios[i],
                    final_list |-> Append(final_list, item_list[i]),
                    scanned |-> i]
              ELSE ScanAppendAll(item_list, ratios, i + 1, ratios[i],
                                 Append(final_list, item_list[i]), brk)
         ELSE ScanAppendAll(item_list, ratios, i + 1, initial,
                            Append(final_list, item_list[i]), brk)

RECURSIVE Scan(_, _, _, _, _, _)
\* The scan loop of from_query from item i on: initial is the best ratio so
\* far, final_list the rows appended on each strict improvement; brk tells
\* whether the loop breaks on a near-exact match (Movie.from_query only).
Scan(item_list, ratios, i, initial, final_list, brk) ==
    IF i > Len(item_list)
    THEN [initial |-> initial, final_list |-> final_list, scanned |-> Len(item_list)]
    ELSE IF Improves(ratios[i], initial)
         THEN IF brk /\ ShortCircuits(ratios[i])
              THEN [initial |-> ratios[i],
                    final_list |-> Append(final_list, item_list[i]),
                    scanned |-> i]
              ELSE Scan(item_list, ratios, i + 1, ratios[i],
                        Append(final_list, item_list[i]), brk)
         ELSE Scan(item_list, ratios, i + 1, initial, final_list, brk)

\* The body shared by Movie/TVShow/Song.from_query after the select: scan,
\* take final_list[-1] (IndexError on an empty list), compare the best ratio
\* with the threshold, raise the typed error naming the candidate or return.
FromQuery(op, item_list, ratios, threshold, notfound, brk) ==
    LET s == Scan(item_list, ratios, 1, 0, <<>>, brk)
        base == [op |-> op, item_list |-> item_list, ratios |-> ratios,
                 threshold |-> threshold,
                 initial |-> s.initial, scanned |-> s.scanned,
                 lookup |-> FALSE, season |-> 0, episode |-> 0]
    IN  IF s.final_list = <<>>
        THEN base @@ [error |-> "IndexError", resolved |-> FALSE, resolved_id |-> 0,
                      returned |-> FALSE, item |-> NoRow, candidate |-> 0]
        ELSE IF BelowThreshold(s.initial, threshold)
             THEN base @@ [error |-> notfound, resolved |-> FALSE, resolved_id |-> 0,
                           returned |-> FALSE, item |-> NoRow,
                           candidate |-> Candidate(s.final_list).id]
             ELSE base @@ [error |-> "none", resolved |-> TRUE,
                           resolved_id |-> Candidate(s.final_list).id,
                           returned |-> TRUE, item |-> Candidate(s.final_list),
                           candidate |-> 0]

\* Variant: the movie scan without its break.
MovieFromQueryNoBreak(ratios) ==
    FromQuery("Movie", MovieItemList, ratios, MovieThreshold, "MovieNotFound", FALSE)

MovieFromQuery(ratios) ==
    FromQuery("Movie", MovieItemList, ratios, MovieThreshold, "MovieNotFound", TRUE)

TVShowFromQuery(ratios) ==
    FromQuery("TVShow", ShowItemList, ratios, ShowThreshold, "EpisodeNotFound", FALSE)

SongFromQuery(ratios) ==
    FromQuery("Song", SongItemList, ratios, SongThreshold, "NothingFound", FALSE)

\* Variant: the select leaves the season out.
EpisodeMatchIgnoringSeason(row, tv_show_id, season, episode) ==
    row.tv_show_id = tv_show_id /\ row.episode = episode

\* where (tv_show_id=? and season=? and episode=?)
EpisodeMatch(row, tv_show_id, season, episode) ==
    row.tv_show_id = tv_show_id /\ row.season = season /\ row.episode = episode

\* Episode.from_query: (season, episode) is what get_episode_tuple parses from
\* the query, ratios are those of query[:-6] against the shows.  An error of
\* TVShow.from_query propagates before the episodes table is read.
EpisodeFromQuery(ratios, season, episode) ==
    LET tv_show == TVShowFromQuery(ratios)
        asked == [tv_show EXCEPT !.op = "Episode", !.season = season,
                                 !.episode = episode]
        result == SelectSeq(episodes,
                            LAMBDA row : EpisodeMatch(row, tv_show.item.id,
                                                      season, episode))
    IN  IF ~tv_show.returned
        THEN asked
        ELSE IF result # <<>>
             THEN [asked EXCEPT !.lookup = TRUE, !.item = result[1]]
             ELSE [asked EXCEPT !.lookup = TRUE, !.error = "EpisodeNotFound",
                                !.returned = FALSE, !.item = NoRow]

\* LocalMedia.update for a row whose hidden attribute was set: the row of
\* that id is rewritten.
Hide(rows, id) ==
    [i \in 1..Len(rows) |->
        IF rows[i].id = id THEN [rows[i] EXCEPT !.hidden = TRUE] ELSE rows[i]]

\* ------------------------------------------------------------------ actions
MovieQuery ==
    /\ res.op = "none"
    /\ \E ratios \in [1..Len(MovieItemList) -> MovieRatios] :
           res' = MovieFromQuery(ratios)
    /\ UNCHANGED <<movies, songs, tv_shows, episodes, subtitleVars, frameVars, botVars>>

SongQuery ==
    /\ res.op = "none"
    /\ \E ratios \in [1..Len(SongItemList) -> SongRatios] :
           res' = SongFromQuery(ratios)
    /\ UNCHANGED <<movies, songs, tv_shows, episodes, subtitleVars, frameVars, botVars>>

EpisodeQuery ==
    /\ res.op = "none"
    /\ \E ratios \in [1..Len(ShowItemList) -> ShowRatios] :
       \E season \in Seasons, episode \in EpisodeNumbers :
           res' = EpisodeFromQuery(ratios, season, episode)
    /\ UNCHANGED <<movies, songs, tv_shows, episodes, subtitleVars, frameVars, botVars>>

\* admin.py blacklist, the query not being an episode query
BlacklistMovie ==
    /\ res.op = "none"
    /\ \E ratios \in [1..Len(MovieItemList) -> MovieRatios] :
           LET item == MovieFromQuery(ratios) IN
           /\ res' = item
           /\ movies' = IF item.returned THEN Hide(movies, item.item.id) ELSE movies
    /\ UNCHANGED <<songs, tv_shows, episodes, subtitleVars, frameVars, botVars>>

\* admin.py blacklist, is_episode(query)
BlacklistEpisode ==
    /\ res.op = "none"
    /\ \E ratios \in [1..Len(ShowItemList) -> ShowRatios] :
       \E season \in Seasons, episode \in EpisodeNumbers :
           LET item == EpisodeFromQuery(ratios, season, episode) IN
           /\ res' = item
           /\ episodes' = IF item.returned THEN Hide(episodes, item.item.id)
                          ELSE episodes
    /\ UNCHANGED <<movies, songs, tv_shows, subtitleVars, frameVars, botVars>>

\* The call has returned or raised and its caller has dealt with the outcome:
\* the next call starts afresh.
Finish ==
    /\ res.op # "none"
    /\ res' = NoResult
    /\ UNCHANGED <<movies, songs, tv_shows, episodes, subtitleVars, frameVars, botVars>>

\* ---------------------------------------------------------------- subtitles
MediaObjects == {1, 2}

\* Cue blocks as they stand in a file: n blocks with any start offsets.
CueBlocks(n) ==
    {[i \in 1..n |-> [start |-> st[i], end |-> st[i] + 1]] : st \in [1..n -> 0..MaxStart]}

\* A subtitle file: absent, unparsable, or cue blocks in file order.
SubtitleFiles ==
    {[state |-> "absent", cues |-> <<>>], [state |-> "corrupt", cues |-> <<>>]}
    \cup {[state |-> "ok", cues |-> c] : c \in UNION {CueBlocks(n) : n \in 0..MaxCues}}

NoSubtitles ==
    [called |-> FALSE, error |-> "none", message |-> "none", returned |-> FALSE,
     cues |-> <<>>]

\* list(srt.parse(item)): one Subtitle per cue block, in the order of the
\* file; srt.parse does not sort.
srt_parse(blocks) == [i \in 1..Len(blocks) |-> blocks[i]]

\* LocalMedia.subtitle: the path, FileNotFoundError without the media file,
\* SubtitlesNotFound without the .en.srt beside it. A cached value is
\* returned without looking at the file system.
subtitle(file, cached) ==
    IF cached THEN "path"
    ELSE IF ~file.media_exists THEN "FileNotFoundError"
    ELSE IF file.sub.state = "absent" THEN "SubtitlesNotFound"
    ELSE "path"

\* Variant: a parse error is swallowed and an empty cue list returned.
get_subtitles_swallowing(file, cached) ==
    LET path == subtitle(file, cached) IN
    IF path = "FileNotFoundError"
    THEN [NoSubtitles EXCEPT !.called = TRUE, !.error = "FileNotFoundError"]
    ELSE IF path = "SubtitlesNotFound"
    THEN [NoSubtitles EXCEPT !.called = TRUE, !.error = "SubtitlesNotFound",
                             !.message = "Subtitles not found"]
    ELSE IF file.sub.state = "absent"
    THEN [NoSubtitles EXCEPT !.called = TRUE, !.error = "FileNotFoundError"]
    ELSE IF file.sub.state = "corrupt"
    THEN [NoSubtitles EXCEPT !.called = TRUE, !.returned = TRUE]
    ELSE [NoSubtitles EXCEPT !.called = TRUE, !.returned = TRUE,
                             !.cues = srt_parse(file.sub.cues)]

\* LocalMedia.get_subtitles(path=None): resolve self.subtitle, open the file,
\* parse it; a parse error is raised as SubtitlesNotFound with its own message.
get_subtitles(file, cached) ==
    LET path == subtitle(file, cached) IN
    IF path = "FileNotFoundError"
    THEN [NoSubtitles EXCEPT !.called = TRUE, !.error = "FileNotFoundError"]
    ELSE IF path = "SubtitlesNotFound"
    THEN [NoSubtitles EXCEPT !.called = TRUE, !.error = "SubtitlesNotFound",
                             !.message = "Subtitles not found"]
    ELSE IF file.sub.state = "absent"
    THEN [NoSubtitles EXCEPT !.called = TRUE, !.error = "FileNotFoundError"]
    ELSE IF file.sub.state = "corrupt"
    THEN [NoSubtitles EXCEPT !.called = TRUE, !.error = "SubtitlesNotFound",
                             !.message = "The subtitles are corrupted"]
    ELSE [NoSubtitles EXCEPT !.called = TRUE, !.returned = TRUE,
                             !.cues = srt_parse(file.sub.cues)]

GetSubtitles ==
    /\ \E m \in MediaObjects :
           /\ subres' = [subres EXCEPT ![m] = get_subtitles(files[m], subtitle_cached[m])]
           /\ subtitle_cached' =
                  [subtitle_cached EXCEPT
                      ![m] = subtitle(files[m], subtitle_cached[m]) = "path"]
    /\ UNCHANGED <<files, extsubres, resolverVars, frameVars, botVars>>

\* Song and YTVideo items: ExternalMedia.__init__ leaves id None until
\* keyword attributes or a query set it.
ExternalItems == [type : {"song", "ytvideo"}, has_id : BOOLEAN]

NoExternalSubtitles ==
    [called |-> FALSE, item |-> [type |-> "none", has_id |-> FALSE],
     error |-> "none", returned |-> FALSE, cues |-> <<>>]

\* "if self": an instance is true whatever its attributes hold.
object_truth(item) == TRUE

\* Variant: the method returns its placeholder list.
external_get_subtitles_empty(item) ==
    [called |-> TRUE, item |-> item, error |-> "none", returned |-> TRUE, cues |-> <<>>]

\* ExternalMedia.get_subtitles, inherited by Song and YTVideo
external_get_subtitles(item) ==
    IF object_truth(item)
    THEN [called |-> TRUE, item |-> item, error |-> "InvalidRequest",
          returned |-> FALSE, cues |-> <<>>]
    ELSE [called |-> TRUE, item |-> item, error |-> "none",
          returned |-> TRUE, cues |-> <<>>]

ExternalGetSubtitles ==
    /\ \E item \in ExternalItems : extsubres' = external_get_subtitles(item)
    /\ UNCHANGED <<files, subtitle_cached, subres, resolverVars, frameVars, botVars>>

\* ------------------------------------------------------------------- frames
NoDar == [num |-> 0, den |-> 1]

NoFrame ==
    [called |-> FALSE, seconds |-> 0, milliseconds |-> 0, frame_start |-> 0,
     decoded |-> FALSE, error |-> "none", returned |-> FALSE,
     image |-> [rows |-> 0, cols |-> 0]]

\* int(self.fps * seconds) + int(self.fps * (milliseconds * 0.001)), fps in
\* thousandths (int truncates; every quantity is non-negative)
\* Python's round() of the rational n / d (d > 0): to nearest, ties to even.
round_half_even(n, d) ==
    LET q == n \div d
        r == n % d
    IN  IF 2 * r < d THEN q
        ELSE IF 2 * r > d THEN q + 1
        ELSE IF q % 2 = 0 THEN q ELSE q + 1

\* Variant: the frame index computed with round() in place of int().
frame_start_rounded(fps_milli, seconds, milliseconds) ==
    round_half_even(fps_milli * seconds, 1000)
        + round_half_even(fps_milli * milliseconds, 1000000)

frame_start_of(fps_milli, seconds, milliseconds) ==
    ((fps_milli * seconds) \div 1000) + ((fps_milli * milliseconds) \div 1000000)

\* capture.set(1, frame_start); capture.read()[1]: a frame exactly when the
\* capture is opened and the index lies inside the video.
read_frame(v, frame_start) == v.openable /\ frame_start < v.nframes

\* utils.get_dar(path): the display aspect ratio stored in the file
get_dar(v) == v.dar

\* _fix_dar: width, height = shape[:2] binds width to the number of rows and
\* height to the number of columns; width is rescaled to
\* int(width * (dar / (width / height))) and the image resized to
\* (width, height), i.e. width columns and height rows.
fix_dar(d, rows, cols) ==
    [cols |-> (d.num * cols) \div d.den, rows |-> cols]

\* Variant: the frame is corrected and returned without the None test.
get_frame_unchecked(v, d, decoded, seconds, milliseconds, frame_start) ==
    [called |-> TRUE, seconds |-> seconds, milliseconds |-> milliseconds,
     frame_start |-> frame_start, decoded |-> decoded, error |-> "none",
     returned |-> TRUE, image |-> fix_dar(d, v.rows, v.cols)]

\* get_frame after the read: the corrected image when a frame was decoded,
\* InexistentTimestamp when frame is None.
get_frame_result(v, d, decoded, seconds, milliseconds, frame_start) ==
    IF decoded
    THEN [called |-> TRUE, seconds |-> seconds, milliseconds |-> milliseconds,
          frame_start |-> frame_start, decoded |-> TRUE, error |-> "none",
          returned |-> TRUE, image |-> fix_dar(d, v.rows, v.cols)]
    ELSE [called |-> TRUE, seconds |-> seconds, milliseconds |-> milliseconds,
          frame_start |-> frame_start, decoded |-> FALSE,
          error |-> "InexistentTimestamp", returned |-> FALSE,
          image |-> [rows |-> 0, cols |-> 0]]

\* cv2.VideoCapture(path).get(CAP_PROP_FPS): 0 for a file that cannot be opened
capture_fps(v) == IF v.openable THEN v.fps_milli ELSE 0

\* One more cv2.VideoCapture(self.path); the count stops at MaxOpens.
count_open(n) == IF n < MaxOpens THEN n + 1 ELSE n

\* Variant: get_frame loads the capture on every call.
always_load(c) == TRUE

\* if self.capture is None: self.load_capture_and_fps()
needs_load(c) == c = "None"

\* Variant: the handle is released when get_frame ends.
capture_released_at_exit(c) == "None"

\* get_frame returns or raises without touching self.capture again: nothing
\* in LocalMedia releases the handle.
capture_at_exit(c) == c

\* load_capture_and_fps, public on its own
LoadCaptureAndFps ==
    /\ capture' = "loaded"
    /\ fps' = capture_fps(video)
    /\ opens' = count_open(opens)
    /\ UNCHANGED <<video, dar, frameres, resolverVars, subtitleVars, botVars>>

Milliseconds == {0, 500, 999}

GetFrame ==
    /\ \E seconds \in 0..MaxSeconds, milliseconds \in Milliseconds :
           LET load == needs_load(capture)
               fps1 == IF load THEN capture_fps(video) ELSE fps
               frame_start == frame_start_of(fps1, seconds, milliseconds)
               decoded == read_frame(video, frame_start)
               dar1 == IF decoded /\ dar = NoDar THEN get_dar(video) ELSE dar
           IN  /\ capture' = capture_at_exit(IF load THEN "loaded" ELSE capture)
               /\ opens' = IF load THEN count_open(opens) ELSE opens
               /\ fps' = fps1
               /\ dar' = dar1
               /\ frameres' = get_frame_result(video, dar1, decoded, seconds,
                                               milliseconds, frame_start)
    /\ UNCHANGED <<video, resolverVars, subtitleVars, botVars>>

\* -------------------------------------------------------------------- admin
Users == {1, 2}
RequestIds == {1, 2}
RoleNames == {"botmin", "verifier"}

NoCommand == [command |-> "none", author |-> 0, id |-> 0, error |-> "none", warned |-> FALSE]

\* @commands.has_any_role(...): the command body runs only for an author who
\* holds one of the named roles.
has_any_role(held, names) == held \cap names # {}

\* Request.verify: the request's verified flag is set.
request_verify(req) == [req EXCEPT !.verified = TRUE]

\* The author of the command authored the request and holds no botmin role.
self_verification(req, author, held) == req.user = author /\ "botmin" \notin held

\* The request as the verify command leaves it: req.verify() has run before
\* the authorship of the request is looked at.
verify_command(req, author, held) == request_verify(req)

Verify ==
    /\ \E author \in Users, id \in RequestIds :
           IF ~has_any_role(roles[author], {"botmin", "verifier"})
           THEN /\ adminres' = [command |-> "verify", author |-> author, id |-> id,
                                error |-> "MissingAnyRole", warned |-> FALSE]
                /\ UNCHANGED requests
           ELSE /\ requests' = [requests EXCEPT
                                   ![id] = verify_command(@, author, roles[author])]
                /\ adminres' = [command |-> "verify", author |-> author, id |-> id,
                                error |-> "none",
                                warned |-> self_verification(requests[id], author,
                                                             roles[author])]
    /\ UNCHANGED <<roles, notAdminVars>>

InitAdminIdle ==
    /\ roles = [u \in Users |-> {}]
    /\ requests = [id \in RequestIds |-> [user |-> 1, verified |-> FALSE]]
    /\ adminres = NoCommand

InitAdmin ==
    /\ roles \in [Users -> SUBSET RoleNames]
    /\ requests \in [RequestIds -> [user : Users, verified : {FALSE}]]
    /\ adminres = NoCommand

\* ----------------------------------------------------------------- pipeline
\* Outcome of subs.Subs for one frame spec of a request: "ok" when it builds
\* the frame, "bad" when it raises one of the exceptions handle_requests
\* catches.
SpecOutcomes == {"ok", "bad"}

AllOk(n) == [i \in 1..n |-> "ok"]

\* The contents of a request: every list of up to MaxSpecs frame specs, a list
\* of three whose second spec fails, and lists at and just over the limit.
Contents ==
    UNION {[1..n -> SpecOutcomes] : n \in 0..MaxSpecs}
        \cup {<<"ok", "bad", "ok">>, AllOk(SpecLimit), AllOk(SpecLimit + 1)}

NoLog == [attempted |-> 0, extracted |-> 0, posted |-> FALSE, notice |-> "none",
          delivered |-> FALSE]

\* Variant: the length test lets one more frame spec through.
too_many_above_seven(content) == Len(content) > SpecLimit + 1

\* if len(m["content"]) > 6: raise AttributeError
too_many(content) == Len(content) > SpecLimit

\* Variant: a failing frame spec is skipped and the remaining ones are built.
extract_frames_skipping(content) ==
    [attempted |-> Len(content),
     extracted |-> Cardinality({i \in 1..Len(content) : content[i] = "ok"}),
     raised |-> FALSE]

\* for frame in m["content"]: Frames.append(subs.Subs(...)); the first
\* constructor that raises ends the loop and the try block.
extract_frames(content) ==
    LET bad == {i \in 1..Len(content) : content[i] = "bad"} IN
    IF bad = {}
    THEN [attempted |-> Len(content), extracted |-> Len(content), raised |-> FALSE]
    ELSE LET k == CHOOSE i \in bad : \A j \in bad : i <= j
         IN  [attempted |-> k, extracted |-> k - 1, raised |-> TRUE]

\* Variant: an empty Frames list goes on to be posted.
frames_usable_when_empty(n) == TRUE

\* Frames[0] raises IndexError on an empty list.
frames_usable(n) == n >= 1

\* The try block of one request.  post_ok and comment_ok tell whether
\* post_request and comment_post return or raise FacebookError.
try_request(content, post_ok, comment_ok) ==
    IF too_many(content)
    THEN [attempted |-> 0, extracted |-> 0, posted |-> FALSE, failed |-> TRUE]
    ELSE LET e == extract_frames(content) IN
         IF e.raised \/ ~frames_usable(e.extracted)
         THEN [attempted |-> e.attempted, extracted |-> e.extracted,
               posted |-> FALSE, failed |-> TRUE]
         ELSE [attempted |-> e.attempted, extracted |-> e.extracted,
               posted |-> post_ok, failed |-> ~post_ok \/ ~comment_ok]

\* get_normal: normal_kino.main publishes a post, comment_post comments it;
\* a FacebookError of either leaves handle_requests uncaught.
get_normal(published, normal_ok, comment_ok) ==
    [posts |-> IF normal_ok
               THEN Append(published, [kind |-> "normal", request |-> 0, frames |-> 1])
               ELSE published,
     pc |-> IF normal_ok /\ comment_ok THEN "done" ELSE "raised"]

\* json.dump(slctd, c), as far as the used flags go
write_js(selected) == [i \in 1..Len(selected) |-> selected[i].used]

\* What the try block of a request can come to, over the outcomes of
\* post_request and comment_post.
TryOutcomes(content) ==
    {try_request(content, post_ok, comment_ok) :
        post_ok \in BOOLEAN, comment_ok \in BOOLEAN}

\* What get_normal can come to, over the outcomes of its two Facebook calls.
NormalOutcomes(published) ==
    {get_normal(published, normal_ok, comment_ok) :
        normal_ok \in BOOLEAN, comment_ok \in BOOLEAN}

\* inc += 1; if inc == len(slctd): get_normal(); break
Advance(published) ==
    /\ inc' = inc + 1
    /\ IF inc = Len(slctd)
       THEN \E normal \in NormalOutcomes(published) :
                /\ pc' = normal.pc
                /\ posts' = normal.posts
       ELSE /\ pc' = "loop"
            /\ posts' = published

\* One turn of the while loop of handle_requests, for the request at inc.
\* delivered tells whether the FB.post of notify went through; notify
\* swallows its FacebookError.
HandleRequest ==
    /\ pc = "loop"
    /\ slctd' = [slctd EXCEPT ![inc].used = TRUE]
    /\ IF slctd[inc].used
       THEN /\ UNCHANGED <<log, comments_json>>
            /\ Advance(posts)
       ELSE \E t \in TryOutcomes(slctd[inc].content), delivered \in BOOLEAN :
                LET published ==
                        IF t.posted
                        THEN Append(posts, [kind |-> "request", request |-> inc,
                                            frames |-> t.extracted])
                        ELSE posts
                IN  /\ log' = [log EXCEPT
                                  ![inc] = [attempted |-> t.attempted,
                                            extracted |-> t.extracted,
                                            posted |-> t.posted,
                                            notice |-> IF t.failed THEN "fail" ELSE "ok",
                                            delivered |-> delivered]]
                    /\ comments_json' = write_js(slctd')
                    /\ IF t.failed
                       THEN Advance(published)
                       ELSE /\ inc' = inc
                            /\ pc' = "done"
                            /\ posts' = published
    /\ UNCHANGED notPipelineVars

InitPipelineIdle ==
    /\ slctd = <<>>
    /\ inc = 1
    /\ pc = "idle"
    /\ posts = <<>>
    /\ log = <<>>
    /\ comments_json = <<>>

\* handle_requests(slctd) is entered with a non-empty list (main).
InitPipeline ==
    /\ \E n \in 1..MaxRequests :
           slctd \in [1..n -> [used : BOOLEAN, content : Contents]]
    /\ inc = 1
    /\ pc = "loop"
    /\ posts = <<>>
    /\ log = [i \in 1..Len(slctd) |-> NoLog]
    /\ comments_json = write_js(slctd)

\* -------------------------------------------------------- external frames
\* Milliseconds of one, two and three digits.
ExternalMilliseconds == {0, 5, 50, 500, 999}

\* What the video_frame_extractor call comes to: subprocess.call times out,
\* it leaves no file, it leaves a file cv2.imread cannot read, or it leaves
\* the frame.
ExtractorOutcomes == {"timeout", "no_file", "unreadable", "frame"}

\* Number of characters of an integer of 0..999 put into an f-string.
Digits(n) == IF n < 10 THEN 1 ELSE IF n < 100 THEN 2 ELSE 3

\* timestamp = f"{seconds}.{milliseconds}": the digits of seconds, a point,
\* the digits of milliseconds.
format_timestamp(seconds, milliseconds) ==
    [whole |-> seconds, fraction |-> milliseconds,
     fraction_digits |-> Digits(milliseconds)]

\* ffmpeg -ss "$TIMESTAMP": the position, in milliseconds, that a decimal
\* number of seconds with up to three fraction digits denotes.
denoted_milliseconds(timestamp) ==
    timestamp.whole * 1000
        + timestamp.fraction
              * (IF timestamp.fraction_digits = 1 THEN 100
                 ELSE IF timestamp.fraction_digits = 2 THEN 10 ELSE 1)

NoExternalFrame ==
    [called |-> FALSE, item |-> [type |-> "none", has_id |-> FALSE],
     seconds |-> 0, milliseconds |-> 0,
     timestamp |-> [whole |-> 0, fraction |-> 0, fraction_digits |-> 1],
     error |-> "none", returned |-> FALSE]

\* ExternalMedia.get_frame
external_get_frame(item, seconds, milliseconds, outcome) ==
    [called |-> TRUE, item |-> item, seconds |-> seconds,
     milliseconds |-> milliseconds,
     timestamp |-> format_timestamp(seconds, milliseconds),
     error |-> IF outcome = "timeout" THEN "KinoUnwantedException"
               ELSE IF outcome = "frame" THEN "none" ELSE "InexistentTimestamp",
     returned |-> outcome = "frame"]

ExternalGetFrame ==
    /\ \E item \in ExternalItems, seconds \in 0..MaxSeconds,
          milliseconds \in ExternalMilliseconds, outcome \in ExtractorOutcomes :
           extframeres' = external_get_frame(item, seconds, milliseconds, outcome)
    /\ UNCHANGED notExternalVars

InitExternalIdle == extframeres = NoExternalFrame

InitExternal == extframeres = NoExternalFrame

\* ------------------------------------------------------- curator commands
\* Command runs of one Discord user that may be in progress together: every
\* await of addmovie / addtvshow lets another command of the bot run.
Runs == {1, 2}

\* What the user does at a prompt: types y, types n, types something else,
\* or lets the 120 seconds of bot.wait_for pass.
Answers == {"y", "n", "other", "timeout"}

NoRun ==
    [command |-> "none", pc |-> "idle", size_left |-> 0, first |-> "none",
     second |-> "none", size |-> 0, queued |-> FALSE, debited |-> 0]

\* Curator.size_left: what the registered additions leave of the quota.
curator_size_left(total, additions) == total - additions

\* _interactive_y_n: the comparison msg.content.lower().strip() == "y", or,
\* on asyncio.TimeoutError, what ctx.send returns, a discord Message.
interactive_y_n(answer) ==
    IF answer = "timeout" THEN "Message"
    ELSE IF answer = "y" THEN "True" ELSE "False"

\* Truth of a value in an if statement
truthy(value) == value \in {"True", "Message"}

\* if sure is None: return None / if not sure: return await ctx.send(...)
confirmed_first(sure) == sure # "None" /\ truthy(sure)

\* if sure is None: return None
confirmed_release(sure) == sure # "None"

\* addmovie / addtvshow up to the first "Are you sure? (y/n)": size_left is
\* read once here; shown tells whether the lookup and the index typed by the
\* user led to an item being shown.
CuratorStart ==
    /\ \E r \in Runs, command \in {"addm", "addtv"}, shown \in BOOLEAN :
           /\ runs[r].pc = "idle"
           /\ LET size_left == curator_size_left(quota, registered) IN
              runs' = [runs EXCEPT
                          ![r] = [@ EXCEPT !.command = command,
                                           !.size_left = size_left,
                                           !.pc = IF size_left < MIN_BYTES \/ ~shown
                                                  THEN "done" ELSE "confirm"]]
    /\ UNCHANGED <<quota, registered, notCuratorVars>>

\* The answer to the first prompt
CuratorConfirm ==
    /\ \E r \in Runs, answer \in Answers :
           /\ runs[r].pc = "confirm"
           /\ runs' = [runs EXCEPT
                          ![r] = [@ EXCEPT !.first = answer,
                                           !.pc = IF confirmed_first(interactive_y_n(answer))
                                                  THEN "release" ELSE "done"]]
    /\ UNCHANGED <<quota, registered, notCuratorVars>>

\* The releases are listed and one is chosen (size 0: none found, or an
\* invalid index); model_1.size is compared with the size_left read at the
\* start of the command.
CuratorChooseRelease ==
    /\ \E r \in Runs, size \in 0..MaxRelease :
           /\ runs[r].pc = "release"
           /\ runs' = [runs EXCEPT
                          ![r] = [@ EXCEPT !.size = size,
                                           !.pc = IF size = 0 \/ size > runs[r].size_left
                                                  THEN "done" ELSE "confirm_release"]]
    /\ UNCHANGED <<quota, registered, notCuratorVars>>

\* The answer to the second prompt, then client.add_to_download_queue and
\* curator.register_addition(model_1.size, ...)
CuratorConfirmRelease ==
    /\ \E r \in Runs, answer \in Answers :
           /\ runs[r].pc = "confirm_release"
           /\ IF confirmed_release(interactive_y_n(answer))
              THEN /\ runs' = [runs EXCEPT
                                  ![r] = [@ EXCEPT !.second = answer, !.pc = "done",
                                                   !.queued = TRUE,
                                                   !.debited = runs[r].size]]
                   /\ registered' = registered + runs[r].size
              ELSE /\ runs' = [runs EXCEPT
                                  ![r] = [@ EXCEPT !.second = answer, !.pc = "done"]]
                   /\ UNCHANGED registered
    /\ UNCHANGED <<quota, notCuratorVars>>

InitCuratorIdle ==
    /\ quota = 0
    /\ registered = 0
    /\ runs = [r \in Runs |-> NoRun]

InitCurator ==
    /\ quota \in 0..MaxQuota
    /\ registered = 0
    /\ runs = [r \in Runs |-> NoRun]

\* ------------------------------------------------------ media registration
ItemIds == 1..MaxItems
Paths == {"a", "b"}

NoItem == [present |-> FALSE, hidden |-> FALSE, path |-> "a"]
NoListing == [listed |-> FALSE, path |-> "a"]

NoRegisterRun ==
    [ran |-> FALSE, error |-> "none", local |-> {}, external |-> {},
     new_items |-> {}, deleted_items |-> {}, modified_items |-> {}]

\* _load_local: select * from {type} where hidden=0
load_local(rows) == {id \in ItemIds : rows[id].present /\ ~rows[id].hidden}

\* _load_external: the items of the inventory
load_external(listing) == {id \in ItemIds : listing[id].listed}

\* external items whose id no local item has
new_items_of(local, external) == {id \in external : id \notin local}

\* local items whose id no external item has
deleted_items_of(local, external) == {id \in local : id \notin external}

\* not any(item.path == local.path for item in self.external_items)
path_unknown(rows, listing, external, id) ==
    \A e \in external : listing[e].path # rows[id].path

\* next(item.path for item in external_items if str(local.id) == str(item.id))
\* raises StopIteration when no external item has the id of the local one.
modified_raises(rows, listing, local, external) ==
    \E id \in local : path_unknown(rows, listing, external, id) /\ id \notin external

modified_items_of(rows, listing, local, external) ==
    {id \in local : path_unknown(rows, listing, external, id)}

\* _handle_deleted: deleted.hidden = True; deleted.update()
handle_deleted(rows, deleted) ==
    [id \in ItemIds |-> IF id \in deleted THEN [rows[id] EXCEPT !.hidden = TRUE]
                        ELSE rows[id]]

\* Kinobase._insert of a new row and Kinobase._update of the row of an id
\* ("update all the columns in the database for item from attributes") both
\* leave the row holding the attributes of the object.
write_row(rows, id, hidden, path) ==
    [rows EXCEPT ![id] = [present |-> TRUE, hidden |-> hidden, path |-> path]]

\* LocalMedia.register for an item built from the inventory, whose hidden
\* attribute is False: _insert, and on sqlite3.IntegrityError update.
register(rows, listing, id) == write_row(rows, id, FALSE, listing[id].path)

\* _handle_new
handle_new(rows, listing, new) ==
    [id \in ItemIds |-> IF id \in new THEN register(rows, listing, id)[id] ELSE rows[id]]

\* _handle_modified: item.update() with the path taken from the inventory
handle_modified(rows, listing, modified) ==
    [id \in ItemIds |-> IF id \in modified
                        THEN [rows[id] EXCEPT !.path = listing[id].path]
                        ELSE rows[id]]

\* One registration run of register_media for one register class:
\* load_new_and_deleted, then handle; any exception ends the run and is
\* ignored.  meta_ok tells whether load_meta of the new items goes through.
RegisterRun ==
    /\ \E meta_ok \in BOOLEAN :
           LET local == load_local(db_items)
               external == load_external(inventory)
               new == new_items_of(local, external)
               deleted == deleted_items_of(local, external)
               raises == modified_raises(db_items, inventory, local, external)
               modified == IF raises THEN {}
                           ELSE modified_items_of(db_items, inventory, local, external)
               after_deleted == handle_deleted(db_items, deleted)
               after_new == handle_new(after_deleted, inventory, new)
               base == [ran |-> TRUE, local |-> local, external |-> external,
                        new_items |-> new, deleted_items |-> deleted,
                        modified_items |-> modified, error |-> "none"]
           IN  IF raises
               THEN /\ db_items' = db_items
                    /\ runres' = [base EXCEPT !.error = "StopIteration"]
               ELSE IF new # {} /\ ~meta_ok
               THEN /\ db_items' = after_deleted
                    /\ runres' = [base EXCEPT !.error = "load_meta"]
               ELSE /\ db_items' = handle_modified(after_new, inventory, modified)
                    /\ runres' = base
    /\ UNCHANGED <<inventory, blacklisted, notRegisterVars>>

\* The blacklist command for an item the resolver returns: item.hidden = True;
\* item.update()
BlacklistItem ==
    /\ \E id \in ItemIds :
           /\ db_items[id].present
           /\ ~db_items[id].hidden
           /\ db_items' = [db_items EXCEPT ![id].hidden = TRUE]
           /\ blacklisted' = blacklisted \cup {id}
    /\ UNCHANGED <<inventory, runres, notRegisterVars>>

InitRegisterIdle ==
    /\ db_items = [id \in ItemIds |-> NoItem]
    /\ inventory = [id \in ItemIds |-> NoListing]
    /\ blacklisted = {}
    /\ runres = NoRegisterRun

InitRegister ==
    /\ db_items \in [ItemIds -> {NoItem} \cup [present : {TRUE}, hidden : BOOLEAN, path : Paths]]
    /\ inventory \in [ItemIds -> {NoListing} \cup [listed : {TRUE}, path : Paths]]
    /\ blacklisted = {}
    /\ runres = NoRegisterRun

\* ------------------------------------------------------- Discord reactions
\* Role names, as the sequences of their characters.
role_botmin == <<"b", "o", "t", "m", "i", "n">>
role_verifier == <<"v", "e", "r", "i", "f", "i", "e", "r">>
role_bot == <<"b", "o", "t">>
role_min == <<"m", "i", "n">>
role_curator == <<"c", "u", "r", "a", "t", "o", "r">>
role_everyone == <<"@", "e", "v", "e", "r", "y", "o", "n", "e">>

TopRoles == {role_botmin, role_verifier, role_bot, role_min, role_curator, role_everyone}

\* The string "botmin verifier"
botmin_verifier == role_botmin \o <<" ">> \o role_verifier

\* Python's "needle in haystack" on strings: needle occurs as a contiguous run
\* of characters of haystack.
str_in(needle, haystack) ==
    \E i \in 0..(Len(haystack) - Len(needle)) :
        SubSeq(haystack, i + 1, i + Len(needle)) = needle

\* GOOD_BAD + EMOJI_STRS as far as two list lines go, and any other emoji
Reactions == {"thumbs_up", "poop", "one", "two", "three", "other"}

\* RANGE_DICT
range_dict(reaction) ==
    IF reaction = "one" THEN 0 ELSE IF reaction = "two" THEN 1 ELSE 2

ReactionRequestIds == {1, 2}

\* Messages a reaction may be put on: the kind its content starts with, and
\* the request ids it carries (the lines of a "1. " list, or the id that
\* get_id_from_discord finds).
Messages ==
    [kind : {"Results", "list", "Added", "Possible NSFW", "other"},
     ids : {<<1>>, <<2>>, <<1, 2>>}]

NoReaction ==
    [handled |-> FALSE, bot |-> FALSE, top_role |-> <<>>, acted |-> "none", id |-> 0]

\* if not str(user.top_role) in "botmin verifier": return
role_allowed(top_role) == str_in(top_role, botmin_verifier)

\* on_reaction_add: what it does, "verify", "remove" or "none", and to which
\* request id (0 for none).
on_reaction_add(bot, top_role, reaction, message) ==
    IF bot THEN [acted |-> "none", id |-> 0]
    ELSE IF reaction = "other" THEN [acted |-> "none", id |-> 0]
    ELSE IF ~role_allowed(top_role) THEN [acted |-> "none", id |-> 0]
    ELSE IF message.kind = "Results" THEN [acted |-> "none", id |-> 0]
    ELSE IF message.kind = "list"
    THEN IF reaction \in {"thumbs_up", "poop"}
         THEN [acted |-> "KeyError", id |-> 0]
         ELSE IF range_dict(reaction) + 1 > Len(message.ids)
         THEN [acted |-> "none", id |-> 0]
         ELSE [acted |-> "verify", id |-> message.ids[range_dict(reaction) + 1]]
    ELSE IF message.kind = "Added" /\ reaction = "poop"
    THEN [acted |-> "remove", id |-> message.ids[1]]
    ELSE IF message.kind = "Possible NSFW" /\ reaction = "thumbs_up"
    THEN [acted |-> "verify", id |-> message.ids[1]]
    ELSE [acted |-> "none", id |-> 0]

\* db.verify_request / db.remove_request
apply_reaction(states, act) ==
    IF act.acted = "verify" THEN [states EXCEPT ![act.id] = "verified"]
    ELSE IF act.acted = "remove" THEN [states EXCEPT ![act.id] = "removed"]
    ELSE states

OnReactionAdd ==
    /\ \E bot \in BOOLEAN, top_role \in TopRoles, reaction \in Reactions,
          message \in Messages :
           LET act == on_reaction_add(bot, top_role, reaction, message) IN
           /\ reqstate' = apply_reaction(reqstate, act)
           /\ reactres' = [handled |-> TRUE, bot |-> bot, top_role |-> top_role,
                           acted |-> act.acted, id |-> act.id]
    /\ UNCHANGED notReactionVars

InitReactionIdle ==
    /\ reqstate = [id \in ReactionRequestIds |-> "queued"]
    /\ reactres = NoReaction

InitReaction ==
    /\ reqstate = [id \in ReactionRequestIds |-> "queued"]
    /\ reactres = NoReaction

\* ------------------------------------------------------- scheduled posting

\* _fb_url_map and an identifier it does not hold
Identifiers == {"en", "es", "pt", "main", "tv"}

fb_url_map == {"en", "es", "pt", "main"}

\* What one turn of the loop meets: an empty queue, or a request whose
\* poster publishes and comments, finds a recent post, fails with a
\* KinoException before anything is fb_posts, fails with one after
\* handle() has fb_posts (in comment()), or fails with another exception.
TurnOutcomes ==
    {"NothingFound", "posted", "RecentPostFound", "KinoException",
     "KinoException after handle", "Exception"}

\* number of posts the poster of one turn publishes
published_by(outcome) ==
    IF outcome \in {"posted", "KinoException after handle"} THEN 1 ELSE 0

\* where the turn leaves the loop: the except clauses of _post_to_facebook
after_turn(outcome, n) ==
    IF outcome = "NothingFound" THEN "done"
    ELSE IF outcome = "posted" THEN "done"
    ELSE IF outcome = "RecentPostFound" THEN "done"
    ELSE IF outcome \in {"KinoException", "KinoException after handle"}
    THEN IF n < AttemptLimit THEN "loop" ELSE "done"
    ELSE "raised"

PostToFacebook ==
    /\ poster_pc = "idle"
    /\ \E id \in Identifiers :
           /\ identifier' = id
           /\ poster_pc' = IF id \in fb_url_map THEN "loop" ELSE "raised"
    /\ count' = 0
    /\ attempts' = <<>>
    /\ fb_posts' = 0
    /\ UNCHANGED notPosterVars

PostTurn ==
    /\ poster_pc = "loop"
    /\ \E outcome \in TurnOutcomes :
           /\ count' = count + 1
           /\ attempts' = Append(attempts, outcome)
           /\ fb_posts' = fb_posts + published_by(outcome)
           /\ poster_pc' = after_turn(outcome, count + 1)
    /\ UNCHANGED <<identifier, notPosterVars>>

PostReturn ==
    /\ poster_pc \in {"done", "raised"}
    /\ poster_pc' = "idle"
    /\ identifier' = "en"
    /\ count' = 0
    /\ attempts' = <<>>
    /\ fb_posts' = 0
    /\ UNCHANGED notPosterVars

InitPosterIdle ==
    /\ identifier = "en"
    /\ poster_pc = "idle"
    /\ count = 0
    /\ attempts = <<>>
    /\ fb_posts = 0

InitPoster ==
    /\ identifier = "en"
    /\ poster_pc = "idle"
    /\ count = 0
    /\ attempts = <<>>
    /\ fb_posts = 0

\* ---------------------------------------------------- Facebook collection

\* the posts kinobot.get("me/posts", limit=page_limit) returns
PagePosts == 1..MaxPosts

\* the comments kinobot.get(post id + "/comments") returns for a post
comments_of(post) == <<[post |-> post, n |-> 1], [post |-> post, n |-> 2]>>

\* How a collection attempt goes: the Graph API answers for the first
\* `fetched` posts, and either that is all of them or the next request
\* raises.
CollectOutcomes ==
    {[fetched |-> k, ok |-> (k = MaxPosts)] : k \in 0..MaxPosts}

RECURSIVE comments_of_posts(_)
comments_of_posts(k) ==
    IF k = 0 THEN <<>> ELSE comments_of_posts(k - 1) \o comments_of(k)

NoCall == [call |-> "none", error |-> FALSE, handled |-> <<>>]

\* FacebookRegister._collect
collect(state, outcome) ==
    IF state.collected THEN [state EXCEPT !.error = FALSE]
    ELSE [comments |-> state.comments \o comments_of_posts(outcome.fetched),
          collected |-> outcome.ok,
          error |-> ~outcome.ok]

\* FacebookRegister.requests / FacebookRegister.ratings: collect, then go
\* through every collected comment
Call(name) ==
    /\ calls < MaxCalls
    /\ calls' = calls + 1
    /\ \E outcome \in CollectOutcomes :
           LET after == collect([comments |-> comments, collected |-> collected,
                                 error |-> FALSE], outcome) IN
           /\ comments' = after.comments
           /\ collected' = after.collected
           /\ callres' = [call |-> name, error |-> after.error,
                          handled |-> IF after.error THEN <<>>
                                      ELSE after.comments]
    /\ UNCHANGED notCollectVars

RegisterRequests == Call("requests")

RegisterRatings == Call("ratings")

InitCollectIdle ==
    /\ comments = <<>>
    /\ collected = FALSE
    /\ calls = 0
    /\ callres = NoCall

InitCollect ==
    /\ comments = <<>>
    /\ collected = FALSE
    /\ calls = 0
    /\ callres = NoCall

InitBotIdle ==
    /\ InitAdminIdle
    /\ InitPipelineIdle
    /\ InitExternalIdle
    /\ InitCuratorIdle
    /\ InitRegisterIdle
    /\ InitReactionIdle
    /\ InitPosterIdle
    /\ InitCollectIdle

\* ----------------------------------------------------------- specifications
InitSubtitlesIdle ==
    /\ files = [m \in MediaObjects |->
                   [media_exists |-> FALSE, sub |-> [state |-> "absent", cues |-> <<>>]]]
    /\ subtitle_cached = [m \in MediaObjects |-> FALSE]
    /\ subres = [m \in MediaObjects |-> NoSubtitles]
    /\ extsubres = NoExternalSubtitles

InitFramesIdle ==
    /\ video = [openable |-> FALSE, fps_milli |-> 0, nframes |-> 0, rows |-> 0,
                cols |-> 0, dar |-> NoDar]
    /\ capture = "None"
    /\ fps = 0
    /\ dar = NoDar
    /\ opens = 0
    /\ frameres = NoFrame

InitResolverIdle ==
    /\ movies = <<>> /\ songs = <<>> /\ tv_shows = <<>> /\ episodes = <<>>
    /\ res = NoResult

\* Tables with n rows whose ids are 1..n, hidden drawn freely.
MediaTables(n) ==
    {[i \in 1..n |-> [id |-> i, hidden |-> h[i]]] : h \in [1..n -> BOOLEAN]}

ShowTable(n) == [i \in 1..n |-> [id |-> i]]

\* (tv_show_id, season, episode) of the episodes a table may hold
EpisodeKeys == {<<1, 1, 1>>, <<1, 1, 2>>, <<1, 2, 1>>, <<2, 1, 1>>}

EpisodeTables(m) ==
    {[i \in 1..m |-> [id |-> i, tv_show_id |-> k[i][1], season |-> k[i][2],
                      episode |-> k[i][3], hidden |-> FALSE]] :
        k \in [1..m -> EpisodeKeys]}

\* The database holds movies only, songs only, or shows with their episodes.
InitResolver ==
    /\ InitBotIdle
    /\ InitSubtitlesIdle
    /\ InitFramesIdle
    /\ res = NoResult
    /\ \/ /\ \E n \in 0..MaxCatalog : movies \in MediaTables(n)
          /\ songs = <<>> /\ tv_shows = <<>> /\ episodes = <<>>
       \/ /\ \E n \in 0..MaxCatalog : songs \in MediaTables(n)
          /\ movies = <<>> /\ tv_shows = <<>> /\ episodes = <<>>
       \/ /\ \E n \in 0..MaxShows : tv_shows = ShowTable(n)
          /\ \E m \in 0..MaxEpisodes : episodes \in EpisodeTables(m)
          /\ movies = <<>> /\ songs = <<>>

NextResolver ==
    \/ MovieQuery
    \/ SongQuery
    \/ EpisodeQuery
    \/ BlacklistMovie
    \/ BlacklistEpisode
    \/ Finish

SpecResolver == InitResolver /\ [][NextResolver]_vars

InitSubtitles ==
    /\ InitBotIdle
    /\ InitResolverIdle
    /\ InitFramesIdle
    /\ files \in [MediaObjects -> [media_exists : BOOLEAN, sub : SubtitleFiles]]
    /\ subtitle_cached = [m \in MediaObjects |-> FALSE]
    /\ subres = [m \in MediaObjects |-> NoSubtitles]
    /\ extsubres = NoExternalSubtitles

NextSubtitles == GetSubtitles \/ ExternalGetSubtitles

SpecSubtitles == InitSubtitles /\ [][NextSubtitles]_vars

FrameRates == {1000, 2500, 23976}
FrameCounts == {0, 1, 3, 60}
Shapes == {[rows |-> 3, cols |-> 4], [rows |-> 9, cols |-> 16]}
Dars == {[num |-> 4, den |-> 3], [num |-> 16, den |-> 9], [num |-> 1, den |-> 1]}

InitFrames ==
    /\ InitBotIdle
    /\ InitResolverIdle
    /\ InitSubtitlesIdle
    /\ \E o \in BOOLEAN, f \in FrameRates, n \in FrameCounts, s \in Shapes, d \in Dars :
           video = [openable |-> o, fps_milli |-> f, nframes |-> n, rows |-> s.rows,
                    cols |-> s.cols, dar |-> d]
    /\ capture = "None"
    /\ fps = 0
    /\ dar = NoDar
    /\ opens = 0
    /\ frameres = NoFrame

NextFrames ==
    \/ LoadCaptureAndFps
    \/ GetFrame

SpecFrames == InitFrames /\ [][NextFrames]_vars

\* A LocalMedia object on which nothing but get_frame is called.
NextFrameCalls == GetFrame

SpecFrameCalls == InitFrames /\ [][NextFrameCalls]_vars

\* ------------------------------------------------------------------ claims
RatioSet(ratios, n) == {ratios[i] : i \in 1..n}

MaxOf(S) == CHOOSE x \in S : \A y \in S : y <= x

\* Position in the selected list of the row with this id (ids are unique).
IndexOfId(item_list, id) == CHOOSE i \in 1..Len(item_list) : item_list[i].id = id

NotFoundOf(op) ==
    IF op = "Movie" THEN "MovieNotFound"
    ELSE IF op = "Song" THEN "NothingFound" ELSE "EpisodeNotFound"

\* C1: no resolver entry point returns an item whose hidden flag is set.
\* (Violated: Song.from_query and Episode.from_query select hidden rows too.)
C1_NeverReturnsHidden == res.returned => ~res.item.hidden

\* C2: when no item reaches the acceptance threshold the resolver fails with
\* the typed NotFound error of its kind and with no other error.
\* (Violated: final_list[-1] raises IndexError when nothing improved on 0.)
C2_TypedNotFound ==
    (res.op # "none" /\ \A i \in 1..Len(res.ratios) : res.ratios[i] < res.threshold)
        => res.error = NotFoundOf(res.op)

\* C3 as stated: a query with ratio 100 against a catalog item resolves to
\* that item, whatever items precede it.
C3_ExactMatchWhateverPrecedes ==
    \A i \in 1..Len(res.ratios) :
        res.ratios[i] = 100
            => res.resolved /\ res.resolved_id = res.item_list[i].id

\* An earlier item already ends the competition for item i: for movies one
\* with ratio > 98 (the scan breaks there), for shows and songs one with
\* ratio 100 (a later equal ratio is no strict improvement).
Preempted(i) ==
    \E j \in 1..(i - 1) :
        IF res.op = "Movie" THEN res.ratios[j] > NearExact ELSE res.ratios[j] = 100

\* C3 amended: a query with ratio 100 against a catalog item resolves to that
\* item unless an earlier item in catalog order has ratio > 98 (movies) or
\* ratio 100 (shows, songs).
C3_ExactMatchUnlessPreempted ==
    \A i \in 1..Len(res.ratios) :
        (res.ratios[i] = 100 /\ ~Preempted(i))
            => res.resolved /\ res.resolved_id = res.item_list[i].id

\* C3 witness: an exact match that is not first in the catalog was resolved.
C3_Witness ==
    \E i \in 2..Len(res.ratios) :
        /\ res.ratios[i] = 100
        /\ res.resolved
        /\ res.resolved_id = res.item_list[i].id

\* First position holding the maximum ratio over the whole selected list.
FirstMaxIndex ==
    CHOOSE i \in 1..Len(res.ratios) :
        /\ res.ratios[i] = MaxOf(RatioSet(res.ratios, Len(res.ratios)))
        /\ \A j \in 1..(i - 1) : res.ratios[j] < res.ratios[i]

\* Two or more items share the maximum ratio over the catalog.
TieAtMax ==
    /\ res.ratios # <<>>
    /\ Cardinality({i \in 1..Len(res.ratios) :
                       res.ratios[i] = MaxOf(RatioSet(res.ratios, Len(res.ratios)))}) >= 2

\* C4 as stated: when two or more items share the maximum ratio over the
\* catalog, the item returned is the first of them in scan order.
C4_FirstOfTiedMaxima ==
    (res.resolved /\ TieAtMax) => res.resolved_id = res.item_list[FirstMaxIndex].id

\* C4 amended: ... the item returned is the first of them in scan order,
\* unless (movies) an earlier item has ratio > 98 and ends the scan.
C4_FirstOfTiedMaximaUnlessPreempted ==
    (res.resolved /\ TieAtMax /\ ~Preempted(FirstMaxIndex))
        => res.resolved_id = res.item_list[FirstMaxIndex].id

\* C4 witness: a resolution with tied maxima, the first of which is not the
\* first item of the catalog.
C4_Witness ==
    /\ res.resolved
    /\ TieAtMax
    /\ FirstMaxIndex > 1
    /\ res.resolved_id = res.item_list[FirstMaxIndex].id

\* C5: resolution succeeds iff the best ratio found is at least the
\* threshold (59 movies and songs, 77 shows); a best ratio below the
\* threshold always fails with NotFound.
\* (Violated: a best ratio of 0 fails with IndexError, see C2.)
C5_ThresholdDecides ==
    res.op # "none" =>
        /\ res.resolved <=> res.initial >= res.threshold
        /\ res.initial < res.threshold => res.error = NotFoundOf(res.op)

\* C6: when the scan of a non-empty catalog fails with NotFound, the
\* candidate named in the message has the maximum ratio over the scanned items.
C6_CandidateIsBest ==
    (res.error = NotFoundOf(res.op) /\ ~res.lookup /\ res.item_list # <<>>)
        => /\ res.candidate \in {res.item_list[i].id : i \in 1..res.scanned}
           /\ res.ratios[IndexOfId(res.item_list, res.candidate)]
                  = MaxOf(RatioSet(res.ratios, res.scanned))

\* C6 witness: a NotFound whose candidate is not the last item scanned.
C6_Witness ==
    /\ res.error = NotFoundOf(res.op)
    /\ ~res.lookup
    /\ res.scanned >= 2
    /\ res.candidate # res.item_list[res.scanned].id

\* C7: Episode.from_query returns an episode only if the store holds a row
\* with exactly (resolved show id, parsed season, parsed episode); without
\* such a row it fails with EpisodeNotFound; without a resolved show it does
\* not look up any episode.
C7_ExactTripleLookup ==
    res.op = "Episode" =>
        /\ res.returned =>
              /\ res.item.tv_show_id = res.resolved_id
              /\ res.item.season = res.season
              /\ res.item.episode = res.episode
              /\ \E i \in 1..Len(episodes) : episodes[i].id = res.item.id
        /\ (res.resolved /\ ~\E i \in 1..Len(episodes) :
                                 /\ episodes[i].tv_show_id = res.resolved_id
                                 /\ episodes[i].season = res.season
                                 /\ episodes[i].episode = res.episode)
              => ~res.returned /\ res.error = "EpisodeNotFound"
        /\ ~res.resolved => ~res.lookup /\ ~res.returned

\* C7 witness: an episode was returned from a table that also holds an
\* episode of another triple.
C7_Witness ==
    /\ res.op = "Episode"
    /\ res.returned
    /\ \E i \in 1..Len(episodes) :
           episodes[i].tv_show_id # res.resolved_id \/ episodes[i].episode # res.episode

\* Sorted by start offset ascending.
SortedByStart(cues) ==
    \A i, j \in 1..Len(cues) : i < j => cues[i].start <= cues[j].start

C9_CuesSortedByStart ==
    \A m \in MediaObjects : subres[m].returned => SortedByStart(subres[m].cues)

\* C10: get_frame fails with InexistentTimestamp exactly when decoding at the
\* target index yields no frame; it returns no image then, and never raises
\* the error when a frame was decoded.
C10_TimestampErrorIffNoFrame ==
    frameres.called =>
        /\ frameres.error = "InexistentTimestamp" <=> ~frameres.decoded
        /\ frameres.returned <=> frameres.decoded
        /\ frameres.decoded <=> read_frame(video, frameres.frame_start)

\* C10 witness: an offset past the end of an openable video was asked for
\* and refused.
C10_Witness ==
    /\ frameres.called
    /\ video.openable /\ video.nframes > 0
    /\ frameres.frame_start >= video.nframes
    /\ frameres.error = "InexistentTimestamp"

\* C11: aspect-ratio correction keeps the height H of the decoded frame and
\* rescales only the width; when the DAR equals W/H the output is (W, H).
\* (Violated: _fix_dar takes shape[:2] as (width, height), so the output has
\* the frame's width as its height.)
C11_HeightKept ==
    frameres.returned =>
        /\ frameres.image.rows = video.rows
        /\ (dar.num * video.rows = dar.den * video.cols)
              => frameres.image = [rows |-> video.rows, cols |-> video.cols]

C18_RoundedIndex ==
    frameres.called =>
        frameres.frame_start =
            round_half_even(fps * frameres.seconds, 1000)
                + round_half_even(fps * frameres.milliseconds, 1000000)

\* C18 amended: the frame index sought is the sum of the two products each
\* truncated to an integer, a + b with a <= fps * seconds < a + 1 and
\* b <= fps * milliseconds / 1000 < b + 1 (fps in thousandths here).
C18_TruncatedIndex ==
    frameres.called =>
        \E a \in 0..frameres.frame_start, b \in 0..frameres.frame_start :
            /\ 1000 * a <= fps * frameres.seconds
            /\ fps * frameres.seconds < 1000 * (a + 1)
            /\ 1000000 * b <= fps * frameres.milliseconds
            /\ fps * frameres.milliseconds < 1000000 * (b + 1)
            /\ frameres.frame_start = a + b

\* C18 witness: at 23.976 fps the timestamp 1 s 999 ms seeks frame 23 + 23,
\* where rounding would give 24 + 24.
C18_Witness ==
    /\ frameres.called
    /\ fps = 23976
    /\ frameres.seconds = 1
    /\ frameres.milliseconds = 999
    /\ frameres.frame_start = 46

\* C20: across any sequence of get_frame calls on one LocalMedia object the
\* decode handle is opened at most once and the frame rate is read only at
\* that opening: a call that finds the handle keeps it and the cached fps.
C20_OpenedOnce ==
    [][/\ opens' <= 1
       /\ capture = "loaded" =>
              /\ capture' = capture
              /\ opens' = opens
              /\ fps' = fps]_vars

\* C20 witness: a call that failed after an earlier call had succeeded (the
\* DAR is cached), with the handle opened once.
C20_Witness ==
    /\ frameres.called
    /\ frameres.error = "InexistentTimestamp"
    /\ dar # NoDar
    /\ opens = 1
    /\ capture = "loaded"

\* Item i is the first of the selected list whose ratio exceeds 98.
FirstNearExact(i) ==
    /\ res.ratios[i] > NearExact
    /\ \A j \in 1..(i - 1) : res.ratios[j] <= NearExact

C16_ExternalHasNoSubtitles ==
    extsubres.called => extsubres.error = "InvalidRequest" /\ ~extsubres.returned

\* C16 witness: get_subtitles of a song whose id is set failed with
\* InvalidRequest.
C16_Witness ==
    /\ extsubres.called
    /\ extsubres.item = [type |-> "song", has_id |-> TRUE]
    /\ extsubres.error = "InvalidRequest"

InitAdminSpec ==
    /\ InitResolverIdle
    /\ InitSubtitlesIdle
    /\ InitFramesIdle
    /\ InitPipelineIdle
    /\ InitExternalIdle
    /\ InitCuratorIdle
    /\ InitRegisterIdle
    /\ InitReactionIdle
    /\ InitPosterIdle
    /\ InitCollectIdle
    /\ InitAdmin

InitPipelineSpec ==
    /\ InitResolverIdle
    /\ InitSubtitlesIdle
    /\ InitFramesIdle
    /\ InitAdminIdle
    /\ InitExternalIdle
    /\ InitCuratorIdle
    /\ InitRegisterIdle
    /\ InitReactionIdle
    /\ InitPosterIdle
    /\ InitCollectIdle
    /\ InitPipeline

NextPipeline == HandleRequest

SpecPipeline == InitPipelineSpec /\ [][NextPipeline]_vars

NextAdmin == Verify

SpecAdmin == InitAdminSpec /\ [][NextAdmin]_vars

\* C17: no execution of verify by a user who authored the request and lacks
\* the botmin role leaves that request verified.
\* (Violated: req.verify() runs first; the check that follows only warns.)
C17_NoSelfVerification ==
    (/\ adminres.command = "verify"
     /\ adminres.error = "none"
     /\ self_verification(requests[adminres.id], adminres.author,
                          roles[adminres.author]))
        => ~requests[adminres.id].verified

\* The request at position i went through the try block of handle_requests.
Processed(i) == log[i].notice # "none"

BadSpecs(i) == {k \in 1..Len(slctd[i].content) : slctd[i].content[k] = "bad"}

\* Some published post is the post of the request at position i.
PostedFor(i) ==
    \E k \in 1..Len(posts) : posts[k].kind = "request" /\ posts[k].request = i

C14_TooManySpecsRejected ==
    \A i \in 1..Len(slctd) :
        (Processed(i) /\ Len(slctd[i].content) > 6)
            => /\ log[i].attempted = 0
               /\ log[i].extracted = 0
               /\ ~log[i].posted
               /\ ~PostedFor(i)
               /\ log[i].notice = "fail"

\* C14 witness: a request of seven frame specs got the failure notice.
C14_Witness ==
    \E i \in 1..Len(slctd) :
        /\ Len(slctd[i].content) = 7
        /\ log[i].notice = "fail"
        /\ slctd[i].used

\* C15: a post is produced for a request only if at least one frame was
\* extracted for it; a request every spec of which fails gets the failure
\* notice and no post.
C15_PostNeedsAFrame ==
    /\ \A k \in 1..Len(posts) :
           posts[k].kind = "request"
               => posts[k].frames >= 1 /\ log[posts[k].request].extracted >= 1
    /\ \A i \in 1..Len(slctd) :
           (Processed(i) /\ Cardinality(BadSpecs(i)) = Len(slctd[i].content))
               => /\ ~log[i].posted
                  /\ ~PostedFor(i)
                  /\ log[i].notice = "fail"

\* C15 witness: a request whose two specs both fail got the failure notice
\* and no post, and the request after it was posted with its frames.
C15_Witness ==
    \E i \in 1..Len(slctd) :
        /\ slctd[i].content = <<"bad", "bad">>
        /\ log[i].notice = "fail"
        /\ ~PostedFor(i)
        /\ \E j \in (i + 1)..Len(slctd) : PostedFor(j)

InitExternalSpec ==
    /\ InitResolverIdle
    /\ InitSubtitlesIdle
    /\ InitFramesIdle
    /\ InitAdminIdle
    /\ InitPipelineIdle
    /\ InitCuratorIdle
    /\ InitRegisterIdle
    /\ InitReactionIdle
    /\ InitPosterIdle
    /\ InitCollectIdle
    /\ InitExternal

NextExternal == ExternalGetFrame

SpecExternal == InitExternalSpec /\ [][NextExternal]_vars

\* C21: for every offset (seconds, milliseconds) with milliseconds in 0..999
\* the timestamp that ExternalMedia.get_frame passes to the frame extractor
\* denotes exactly seconds + milliseconds / 1000 seconds.
\* (Violated: the milliseconds are written without leading zeros, so (1, 5)
\* is passed as 1.5.)
C21_TimestampDenotesOffset ==
    extframeres.called =>
        denoted_milliseconds(extframeres.timestamp)
            = extframeres.seconds * 1000 + extframeres.milliseconds

\* C22: one run of handle_requests publishes at most one post in total, the
\* post of one request or the fallback normal post, whatever step fails after
\* the post.
\* (Violated: a FacebookError of comment_post after a successful post_request
\* is caught by the same except clause and the loop goes on to the next
\* request, or to get_normal.)
C22_AtMostOnePost == Len(posts) <= 1

InitCuratorSpec ==
    /\ InitResolverIdle
    /\ InitSubtitlesIdle
    /\ InitFramesIdle
    /\ InitAdminIdle
    /\ InitPipelineIdle
    /\ InitExternalIdle
    /\ InitRegisterIdle
    /\ InitReactionIdle
    /\ InitPosterIdle
    /\ InitCollectIdle
    /\ InitCurator

NextCurator ==
    \/ CuratorStart
    \/ CuratorConfirm
    \/ CuratorChooseRelease
    \/ CuratorConfirmRelease

SpecCurator == InitCuratorSpec /\ [][NextCurator]_vars

\* C23: addm and addtv queue a release for download and debit the quota only
\* if the user answered y to every "Are you sure? (y/n)" prompt.
\* (Violated: a timeout yields the Message that ctx.send returns, which is
\* neither None nor false, and the second prompt tests only for None.)
C23_OnlyAfterYes ==
    \A r \in Runs :
        (runs[r].queued \/ runs[r].debited > 0)
            => runs[r].first = "y" /\ runs[r].second = "y"

\* C24: under any interleaving of addm / addtv runs of one user the quota
\* left never becomes negative.
\* (Violated: each run compares the release size with the size_left it read
\* when it started.)
C24_QuotaNeverNegative == curator_size_left(quota, registered) >= 0

InitRegisterSpec ==
    /\ InitResolverIdle
    /\ InitSubtitlesIdle
    /\ InitFramesIdle
    /\ InitAdminIdle
    /\ InitPipelineIdle
    /\ InitExternalIdle
    /\ InitCuratorIdle
    /\ InitReactionIdle
    /\ InitPosterIdle
    /\ InitCollectIdle
    /\ InitRegister

NextRegister == RegisterRun \/ BlacklistItem

SpecRegister == InitRegisterSpec /\ [][NextRegister]_vars

\* C25: after a registration run every item that was local and not hidden
\* and whose id the inventory does not list is hidden in the database, and
\* such an item does not make load_new_and_deleted fail.
\* (Violated: the modified-paths loop calls next() on an empty generator for
\* such an item and raises StopIteration before handle runs.)
C25_DeletedEndHidden ==
    runres.ran =>
        LET gone == {id \in runres.local : id \notin runres.external} IN
        /\ \A id \in gone : db_items[id].hidden
        /\ gone # {} => runres.error # "StopIteration"

\* C26: an item the blacklist command has hidden stays hidden across any
\* number of later registration runs, even while the inventory lists it.
\* (Violated: a hidden row is not among the local items, so the run takes
\* the listed item for new and registers it, which rewrites hidden to 0.)
C26_BlacklistedStaysHidden == \A id \in blacklisted : db_items[id].hidden

InitReactionSpec ==
    /\ InitResolverIdle
    /\ InitSubtitlesIdle
    /\ InitFramesIdle
    /\ InitAdminIdle
    /\ InitPipelineIdle
    /\ InitExternalIdle
    /\ InitCuratorIdle
    /\ InitRegisterIdle
    /\ InitPosterIdle
    /\ InitCollectIdle
    /\ InitReaction

NextReaction == OnReactionAdd

SpecReaction == InitReactionSpec /\ [][NextReaction]_vars

\* C27: a reaction leads on_reaction_add to verify or remove a request only
\* if the reacting user is not a bot and their top role is exactly botmin or
\* exactly verifier.
\* (Violated: the role test is a substring test against "botmin verifier",
\* which the top roles "bot" and "min" pass.)
C27_OnlyBotminOrVerifier ==
    reactres.acted \in {"verify", "remove"}
        => /\ ~reactres.bot
           /\ reactres.top_role \in {role_botmin, role_verifier}

InitPosterSpec ==
    /\ InitResolverIdle
    /\ InitSubtitlesIdle
    /\ InitFramesIdle
    /\ InitAdminIdle
    /\ InitPipelineIdle
    /\ InitExternalIdle
    /\ InitCuratorIdle
    /\ InitRegisterIdle
    /\ InitReactionIdle
    /\ InitCollectIdle
    /\ InitPoster

NextPoster == PostToFacebook \/ PostTurn \/ PostReturn

SpecPoster == InitPosterSpec /\ [][NextPoster]_vars

\* C28: a call of _post_to_facebook makes at most 4 turns, goes on only
\* after a turn that failed with a KinoException, stops at the first post,
\* NothingFound or RecentPostFound and after the 4th failed turn, and never
\* publishes more than one post.
\* (Violated: a KinoException raised after handle() has fb_posts sends the
\* loop to another request, which is fb_posts as well.)
C28_BoundedAttemptsOnePost ==
    /\ count <= AttemptLimit
    /\ Len(attempts) = count
    /\ poster_pc = "loop" =>
           /\ count < AttemptLimit
           /\ \A i \in 1..Len(attempts) :
                  attempts[i] \in {"KinoException", "KinoException after handle"}
    /\ fb_posts <= 1

InitCollectSpec ==
    /\ InitResolverIdle
    /\ InitSubtitlesIdle
    /\ InitFramesIdle
    /\ InitAdminIdle
    /\ InitPipelineIdle
    /\ InitExternalIdle
    /\ InitCuratorIdle
    /\ InitRegisterIdle
    /\ InitReactionIdle
    /\ InitPosterIdle
    /\ InitCollect

NextCollect == RegisterRequests \/ RegisterRatings

SpecCollect == InitCollectSpec /\ [][NextCollect]_vars

\* C29: whatever requests() and ratings() calls were made on one
\* FacebookRegister, failed collection attempts included, no comment is
\* twice in the collected list and no call handles a comment twice.
\* (Violated: a collection that fails part-way keeps what it appended and
\* leaves __collected False, so the next call appends the same comments
\* again.)
C29_CollectedOnce ==
    /\ \A i, j \in 1..Len(comments) : i # j => comments[i] # comments[j]
    /\ \A i, j \in 1..Len(callres.handled) :
           i # j => callres.handled[i] # callres.handled[j]

====
